---------------------------- MODULE Spec2Model ----------------------------
(***************************************************************************)
(* A model of util.py, the specification-processing core of the protocol   *)
(* definition compiler: version encoding and "since" validation, service   *)
(* and method id validation, message id assignment, the data-flow          *)
(* classification of type names and the emission loop of generate_codecs.  *)
(*                                                                         *)
(* A "since" string such as "2.1" or "2.1.5" is modelled by the sequence   *)
(* of its dotted components, <<2, 1>> or <<2, 1, 5>>.                      *)
(***************************************************************************)
EXTENDS Integers, Sequences, FiniteSets, TLC

VARIABLES
    since,              \* is_parameters_...: the owner's "since"
    params,             \* is_parameters_...: the "since" of each parameter
    protocol_versions,  \* the known versions, as numbers (a list)
    sem_result,         \* outcome of is_semantically_correct_param
    par_result,         \* outcome of is_parameters_ordered_and_semantically_correct
    services,           \* the loaded corpus, in load order
    no_id_check,        \* validate_services: the flag that disables the id checks
    vs_result,          \* outcome of validate_services
    custom_types,       \* lookup table: custom type name -> its parameter types
    df_services,        \* lookup table: the services whose requests are classified
    lookup,             \* lookup table: loop position, memo sets and table so far
    id_doc,             \* message ids: a service and one of its methods, as documents
    gen_services,       \* generate_codecs: the corpus (its methods gain their ids)
    lang,               \* generate_codecs: the target language
    ignore_list,        \* generate_codecs: language_service_ignore_list[lang]
    gen,                \* generate_codecs: position of the loops, notices printed
    files,              \* the output directory: file name -> text written
    save,               \* save_file: the calls made so far, the arguments of the last
    enc,                \* version_to_number: two versions and their numbers
    id_docs             \* message ids: two methods of the corpus, as documents

versVars == <<since, params, protocol_versions, sem_result, par_result>>
validVars == <<services, no_id_check, vs_result>>
dataVars == <<custom_types, df_services, lookup>>
genVars == <<gen_services, lang, ignore_list, gen, files>>
vars == <<versVars, validVars, dataVars, id_doc, genVars, save, enc, id_docs>>

(***************************************************************************)
(* Bounds and sample sets of the inputs.                                   *)
(***************************************************************************)
MaxParams == 3
MaxKnown == 3

Majors == {1, 2}
Minors == {0, 1}
Patches == {1}

\* "M.m" and "M.m.p"
SinceSamples ==
    {<<M, m>> : M \in Majors, m \in Minors}
      \cup {<<M, m, p>> : M \in Majors, m \in Minors, p \in Patches}

SeqsUpTo(S, n) == UNION {[1..k -> S] : k \in 0..n}

Range(s) == {s[k] : k \in 1..Len(s)}

NotRun == [done |-> FALSE]

\* The part of the state an operation of another component leaves untouched.
ValidIdle == services = <<>> /\ no_id_check = FALSE /\ vs_result = NotRun
VersionsIdle ==
    /\ since = <<1, 0>> /\ params = <<>> /\ protocol_versions = <<>>
    /\ sem_result = NotRun /\ par_result = NotRun

DataIdle == custom_types = <<>> /\ df_services = <<>> /\ lookup = NotRun

IdsIdle == id_doc = NotRun

SaveIdle == save = NotRun

EncodeIdle == enc = NotRun

CorpusIdsIdle == id_docs = NotRun

GenIdle ==
    /\ gen_services = <<>> /\ lang = "java" /\ ignore_list = {}
    /\ gen = NotRun /\ files = <<>>

(***************************************************************************)
(* Version Registry.                                                       *)
(***************************************************************************)
MAJOR_VERSION_MULTIPLIER == 10000
MINOR_VERSION_MULTIPLIER == 100
PATCH_VERSION_MULTIPLIER == 1

\* The major multiplier one digit short.
version_to_number_short_major(major, minor, patch) ==
    (MAJOR_VERSION_MULTIPLIER \div 10) * major
      + MINOR_VERSION_MULTIPLIER * minor
      + PATCH_VERSION_MULTIPLIER * patch

version_to_number(major, minor, patch) ==
    MAJOR_VERSION_MULTIPLIER * major
      + MINOR_VERSION_MULTIPLIER * minor
      + PATCH_VERSION_MULTIPLIER * patch

\* version.split(".") mapped to int; a missing third component is patch = 0
get_version_as_number(version) ==
    version_to_number(version[1], version[2],
                      IF Len(version) >= 3 THEN version[3] ELSE 0)

\* The caller hands the known versions over as a sorted list of numbers.
RECURSIVE SortedSeq(_)
SortedSeq(S) ==
    IF S = {} THEN <<>>
    ELSE LET m == CHOOSE x \in S : \A y \in S : x <= y
         IN  <<m>> \o SortedSeq(S \ {m})

KnownSets ==
    {S \in SUBSET {get_version_as_number(v) : v \in SinceSamples} :
        Cardinality(S) \in 1..MaxKnown}

KnownSinces(versions) ==
    {v \in SinceSamples : get_version_as_number(v) \in Range(versions)}

(***************************************************************************)
(* Schema & Ordering Validator: the "since" checks.                        *)
(***************************************************************************)
is_semantically_correct_param_minor_slip(version, versions) ==
    IF version # versions[1]
    THEN IF version % MINOR_VERSION_MULTIPLIER = 0
         THEN (version - PATCH_VERSION_MULTIPLIER) \in Range(versions)
         ELSE IF version % PATCH_VERSION_MULTIPLIER = 0
              THEN (version - PATCH_VERSION_MULTIPLIER) \in Range(versions)
              ELSE TRUE
    ELSE TRUE

is_semantically_correct_param(version, versions) ==
    IF version # versions[1]
    THEN IF version % MINOR_VERSION_MULTIPLIER = 0
         THEN (version - MINOR_VERSION_MULTIPLIER) \in Range(versions)
         ELSE IF version % PATCH_VERSION_MULTIPLIER = 0
              THEN (version - PATCH_VERSION_MULTIPLIER) \in Range(versions)
              ELSE TRUE
    ELSE TRUE

\* One pass of "for param in params" from position k on; acc carries the
\* locals version, is_ordered, is_semantically_correct and the positions the
\* two diagnostics were printed for.
RECURSIVE params_loop_no_advance(_, _, _, _)
params_loop_no_advance(ps, k, acc, versions) ==
    IF k > Len(ps) THEN acc
    ELSE LET param_version == get_version_as_number(ps[k])
             sem == is_semantically_correct_param(param_version, versions)
             ord == ~(acc.version > param_version)
         IN  params_loop_no_advance(ps, k + 1,
                 [version |-> acc.version,
                  is_ordered |-> acc.is_ordered /\ ord,
                  is_semantically_correct |-> acc.is_semantically_correct /\ sem,
                  unordered |-> IF ord THEN acc.unordered ELSE acc.unordered \cup {k},
                  unfollowed |-> IF sem THEN acc.unfollowed ELSE acc.unfollowed \cup {k}],
                 versions)

RECURSIVE params_loop(_, _, _, _)
params_loop(ps, k, acc, versions) ==
    IF k > Len(ps) THEN acc
    ELSE LET param_version == get_version_as_number(ps[k])
             sem == is_semantically_correct_param(param_version, versions)
             ord == ~(acc.version > param_version)
         IN  params_loop(ps, k + 1,
                 [version |-> param_version,
                  is_ordered |-> acc.is_ordered /\ ord,
                  is_semantically_correct |-> acc.is_semantically_correct /\ sem,
                  unordered |-> IF ord THEN acc.unordered ELSE acc.unordered \cup {k},
                  unfollowed |-> IF sem THEN acc.unfollowed ELSE acc.unfollowed \cup {k}],
                 versions)

\* Position 0 in unfollowed stands for the diagnostic about the owner itself.
is_parameters_ordered_and_semantically_correct(owner_since, ps, versions) ==
    LET version == get_version_as_number(owner_since)
        sem == is_semantically_correct_param(version, versions)
        out == params_loop(ps, 1,
                   [version |-> version,
                    is_ordered |-> TRUE,
                    is_semantically_correct |-> sem,
                    unordered |-> {},
                    unfollowed |-> IF sem THEN {} ELSE {0}],
                   versions)
    IN  [is_ordered |-> out.is_ordered,
         is_semantically_correct |-> out.is_semantically_correct,
         unordered |-> out.unordered,
         unfollowed |-> out.unfollowed,
         ret |-> out.is_ordered /\ out.is_semantically_correct]

(***************************************************************************)
(* The "since" checks as operations on drawn inputs.                       *)
(***************************************************************************)
\* The known versions are every "since" of the corpus, so the owner's and the
\* parameters' "since" are among them.
InitVersions ==
    /\ CorpusIdsIdle
    /\ EncodeIdle
    /\ SaveIdle
    /\ protocol_versions \in {SortedSeq(S) : S \in KnownSets}
    /\ since \in KnownSinces(protocol_versions)
    /\ params \in SeqsUpTo(KnownSinces(protocol_versions), MaxParams)
    /\ sem_result = NotRun
    /\ par_result = NotRun
    /\ ValidIdle
    /\ DataIdle
    /\ IdsIdle
    /\ GenIdle

CheckVersion ==
    /\ ~sem_result.done
    /\ sem_result' =
         [done |-> TRUE,
          version |-> get_version_as_number(since),
          ret |-> is_semantically_correct_param(get_version_as_number(since),
                                                protocol_versions)]
    /\ UNCHANGED <<save, enc, id_docs, since, params, protocol_versions, par_result, validVars, dataVars, id_doc, genVars>>

CheckParameters ==
    /\ ~par_result.done
    /\ par_result' =
         [done |-> TRUE] @@
         is_parameters_ordered_and_semantically_correct(since, params,
                                                        protocol_versions)
    /\ UNCHANGED <<save, enc, id_docs, since, params, protocol_versions, sem_result, validVars, dataVars, id_doc, genVars>>

NextVersions == CheckVersion \/ CheckParameters

SpecVersions == InitVersions /\ [][NextVersions]_vars

(***************************************************************************)
(* Schema & Ordering Validator: validate_services.                         *)
(*                                                                         *)
(* A service is [name, id, schema_ok, methods]; schema_ok is the verdict   *)
(* of jsonschema.validate on the document.  A method is [id, since,        *)
(* request, response, events], request and response being the list of      *)
(* their parameters' "since", an event [since, params].  Positions in the   *)
(* diagnostics are the 0-based i and j of the code.                         *)
(***************************************************************************)
ID_VALIDATOR_IGNORE_SET == {"Jet", "Experimental"}

\* Every "since" of the corpus.
get_protocol_versions(svcs) ==
    UNION {
        UNION {
            LET method == svcs[i].methods[j]
            IN  {method.since} \cup Range(method.request) \cup Range(method.response)
                  \cup UNION {{method.events[e].since} \cup Range(method.events[e].params) :
                              e \in 1..Len(method.events)}
            : j \in 1..Len(svcs[i].methods)}
        : i \in 1..Len(svcs)}

validate_against_schema(service) == service.schema_ok

\* The diagnostics of the body of "for j in range(len(methods))" for the
\* method at position j of the service at position i.
method_diagnostics(i, j, method, versions) ==
    (IF (j + 1) # method.id THEN {<<"method_id", i, j>>} ELSE {})
      \cup (IF ~is_parameters_ordered_and_semantically_correct(
                    method.since, method.request, versions).ret
            THEN {<<"since", i, j, "request">>} ELSE {})
      \cup (IF ~is_parameters_ordered_and_semantically_correct(
                    method.since, method.response, versions).ret
            THEN {<<"since", i, j, "response">>} ELSE {})
      \cup {<<"since", i, j, "event", e - 1>> : e \in
              {e \in 1..Len(method.events) :
                  ~is_parameters_ordered_and_semantically_correct(
                      method.events[e].since, method.events[e].params, versions).ret}}

\* The diagnostics of one iteration of "for i in range(len(services))" past
\* the schema check; valid is cleared iff one is printed.
service_diagnostics(i, service, noIdCheck, versions) ==
    IF ~noIdCheck /\ service.name \notin ID_VALIDATOR_IGNORE_SET
    THEN (IF i # service.id THEN {<<"service_id", i>>} ELSE {})
           \cup UNION {method_diagnostics(i, j - 1, service.methods[j], versions) :
                       j \in 1..Len(service.methods)}
    ELSE {}

\* "for i in range(len(services))" from position i on, with the locals valid
\* and the diagnostics printed so far.
RECURSIVE validate_loop(_, _, _, _, _, _)
validate_loop(svcs, i, valid, log, noIdCheck, versions) ==
    IF i >= Len(svcs) THEN [ret |-> valid, log |-> log]
    ELSE LET service == svcs[i + 1]
         IN  IF ~validate_against_schema(service)
             THEN [ret |-> FALSE, log |-> log \cup {<<"schema", i>>}]
             ELSE LET diags == service_diagnostics(i, service, noIdCheck, versions)
                  IN  validate_loop(svcs, i + 1, valid /\ diags = {},
                                    log \cup diags, noIdCheck, versions)

validate_services(svcs, noIdCheck, versions) ==
    validate_loop(svcs, 0, TRUE, {}, noIdCheck, versions)

\* Sample corpora.
ServiceNames == {"Map", "Jet", "Experimental"}
ServiceIds == {0, 1}
MethodIds == {1, 2}
MethodShapes ==
    { [since |-> <<1, 0>>, request |-> << <<1, 0>>, <<1, 1>> >>, response |-> <<>>,
       events |-> <<>>],
      [since |-> <<1, 1>>, request |-> << <<1, 0>> >>, response |-> <<>>,
       events |-> <<>>],
      [since |-> <<1, 0>>, request |-> <<>>, response |-> << <<1, 0>> >>,
       events |-> << [since |-> <<1, 1>>, params |-> << <<1, 0>> >>] >>] }
MethodSamples ==
    {[id |-> n] @@ shape : n \in MethodIds, shape \in MethodShapes}
ServiceSamples ==
    [name : ServiceNames, id : ServiceIds, schema_ok : BOOLEAN,
     methods : SeqsUpTo(MethodSamples, 2)]

InitValidate ==
    /\ CorpusIdsIdle
    /\ EncodeIdle
    /\ SaveIdle
    /\ services \in SeqsUpTo(ServiceSamples, 2)
    /\ no_id_check \in BOOLEAN
    /\ vs_result = NotRun
    /\ VersionsIdle
    /\ DataIdle
    /\ IdsIdle
    /\ GenIdle

ValidateServices ==
    /\ ~vs_result.done
    /\ vs_result' =
         [done |-> TRUE] @@
         validate_services(services, no_id_check,
             SortedSeq({get_version_as_number(v) : v \in get_protocol_versions(services)}))
    /\ UNCHANGED <<save, enc, id_docs, services, no_id_check, versVars, dataVars, id_doc, genVars>>

NextValidate == ValidateServices

SpecValidate == InitValidate /\ [][NextValidate]_vars

(***************************************************************************)
(* Data-Flow Analyzer: generate_data_containing_requests_lookup_table.     *)
(*                                                                         *)
(* A type name is modelled by the sequence of its "_"-separated segments:  *)
(* "Map_String_List_Data" is <<"Map", "String", "List", "Data">>.  The     *)
(* memo sets types_containing_serialized_data and                          *)
(* types_not_containing_serialized_data are the fields hits and misses of  *)
(* the state threaded through the calls; error is the exception that       *)
(* propagates out of them, "none" when there is none; trace lists the      *)
(* calls of type_contains_serialized_data that have returned, in the order *)
(* of their return, each with its argument and its result.                 *)
(***************************************************************************)
\* The depth at which the interpreter gives up a recursion (RecursionError).
RecursionLimit == 12

\* type_name.startswith(prefix + "_")
startswith(type_name, prefixes) ==
    Len(type_name) >= 2 /\ type_name[1] \in prefixes

Returned(value, st) ==
    [ret |-> value, hits |-> st.hits, misses |-> st.misses, error |-> st.error,
     trace |-> st.trace]
Raised(what, st) ==
    [ret |-> FALSE, hits |-> st.hits, misses |-> st.misses, error |-> what,
     trace |-> st.trace]
\* types_containing_serialized_data.add(type_name); return True
AddHit(type_name, st) ==
    [ret |-> TRUE, hits |-> st.hits \cup {type_name}, misses |-> st.misses,
     error |-> st.error, trace |-> st.trace]
\* types_not_containing_serialized_data.add(type_name); return False
\* The miss is returned but not remembered.
AddMiss_not_remembered(type_name, st) ==
    [ret |-> FALSE, hits |-> st.hits, misses |-> st.misses,
     error |-> st.error, trace |-> st.trace]

AddMiss(type_name, st) ==
    [ret |-> FALSE, hits |-> st.hits, misses |-> st.misses \cup {type_name},
     error |-> st.error, trace |-> st.trace]

\* The call for type_name returns r.
Return(type_name, r) ==
    IF r.error # "none" THEN r
    ELSE [r EXCEPT !.trace = Append(@, [name |-> type_name, ret |-> r.ret])]

RECURSIVE type_contains_serialized_data(_, _, _, _)
RECURSIVE custom_type_contains_serialized_data(_, _, _, _, _)

type_contains_key_only(type_name, st, customs, depth) ==
    IF depth > RecursionLimit THEN Raised("RecursionError", st)
    ELSE IF type_name \in st.hits THEN Returned(TRUE, st)
    ELSE IF type_name \in st.misses THEN Returned(FALSE, st)
    ELSE IF startswith(type_name, {"List", "ListCN", "Set"})
    THEN LET item == type_contains_serialized_data(Tail(type_name), st, customs, depth + 1)
         IN  IF item.error # "none" THEN item
             ELSE IF item.ret THEN AddHit(type_name, item)
             ELSE AddMiss(type_name, item)
    ELSE IF startswith(type_name, {"Map", "EntryList"})
    THEN IF Len(type_name) < 3 THEN Raised("ValueError", st)
         ELSE LET key == type_contains_serialized_data(
                             <<type_name[2]>>, st, customs, depth + 1)
              IN  IF key.error # "none" THEN key
                  ELSE IF key.ret THEN AddHit(type_name, key)
                  ELSE AddMiss(type_name, key)
    ELSE IF type_name \in DOMAIN customs
    THEN LET custom == custom_type_contains_serialized_data(
                           customs[type_name], 1, st, customs, depth + 1)
         IN  IF custom.error # "none" THEN custom
             ELSE IF custom.ret THEN AddHit(type_name, custom)
             ELSE AddMiss(type_name, custom)
    ELSE AddMiss(type_name, st)

type_contains_serialized_data(type_name, st, customs, depth) ==
    LET r ==
        IF depth > RecursionLimit THEN Raised("RecursionError", st)
        ELSE IF type_name \in st.hits THEN Returned(TRUE, st)
        ELSE IF type_name \in st.misses THEN Returned(FALSE, st)
        ELSE IF startswith(type_name, {"List", "ListCN", "Set"})
        THEN \* item_type_name = type_name.split("_", 1)[1]
             LET item == type_contains_serialized_data(Tail(type_name), st, customs, depth + 1)
             IN  IF item.error # "none" THEN item
                 ELSE IF item.ret THEN AddHit(type_name, item)
                 ELSE AddMiss(type_name, item)
        ELSE IF startswith(type_name, {"Map", "EntryList"})
        THEN \* key_type_name, value_type_name = type_name.split("_", 2)[1:3]
             IF Len(type_name) < 3 THEN Raised("ValueError", st)
             ELSE LET key == type_contains_serialized_data(
                                 <<type_name[2]>>, st, customs, depth + 1)
                  IN  IF key.error # "none" THEN key
                      ELSE IF key.ret THEN AddHit(type_name, key)
                      ELSE LET value == type_contains_serialized_data(
                                            SubSeq(type_name, 3, Len(type_name)),
                                            key, customs, depth + 1)
                           IN  IF value.error # "none" THEN value
                               ELSE IF value.ret THEN AddHit(type_name, value)
                               ELSE AddMiss(type_name, value)
        ELSE IF type_name \in DOMAIN customs
        THEN LET custom == custom_type_contains_serialized_data(
                               customs[type_name], 1, st, customs, depth + 1)
             IN  IF custom.error # "none" THEN custom
                 ELSE IF custom.ret THEN AddHit(type_name, custom)
                 ELSE AddMiss(type_name, custom)
        ELSE AddMiss(type_name, st)
    IN  Return(type_name, r)

\* "for param in custom_type['params']" from position k on.
custom_type_contains_serialized_data(ps, k, st, customs, depth) ==
    IF depth > RecursionLimit THEN Raised("RecursionError", st)
    ELSE IF k > Len(ps) THEN Returned(FALSE, st)
    ELSE LET param == type_contains_serialized_data(ps[k], st, customs, depth + 1)
         IN  IF param.error # "none" THEN param
             ELSE IF param.ret THEN Returned(TRUE, param)
             ELSE custom_type_contains_serialized_data(ps, k + 1, param, customs, depth)

\* The state of the function after its preamble: the table is empty, "Data"
\* is the one known hit, the loops stand at the first parameter of the first
\* method of the first service.
lookup_start ==
    [done |-> TRUE, status |-> "run", s |-> 1, m |-> 1, p |-> 1,
     hits |-> {<<"Data">>}, misses |-> {}, table |-> <<>>,
     last |-> [name |-> <<>>, ret |-> FALSE, trace |-> <<>>]]

SetEntry(table, service_name, method_name, value) ==
    (<<service_name, method_name>> :> value) @@ table

lookup_at_end(L, svcs) == L.s > Len(svcs)
lookup_at_service_end(L, svcs) ==
    ~lookup_at_end(L, svcs) /\ L.m > Len(svcs[L.s].methods)
lookup_at_params_end(L, svcs) ==
    /\ ~lookup_at_end(L, svcs) /\ ~lookup_at_service_end(L, svcs)
    /\ L.p > Len(svcs[L.s].methods[L.m].request.params)
lookup_at_param(L, svcs) ==
    /\ ~lookup_at_end(L, svcs) /\ ~lookup_at_service_end(L, svcs)
    /\ ~lookup_at_params_end(L, svcs)

\* One step of the loops "for service / for method / for param".
lookup_step(L, svcs, customs) ==
    IF lookup_at_end(L, svcs) THEN [L EXCEPT !.status = "returned"]
    ELSE IF lookup_at_service_end(L, svcs)
    THEN [L EXCEPT !.s = L.s + 1, !.m = 1, !.p = 1]
    ELSE LET service == svcs[L.s]
             method == service.methods[L.m]
         IN  IF lookup_at_params_end(L, svcs)
             THEN \* the for loop's else clause
                  [L EXCEPT !.table = SetEntry(L.table, service.name, method.name, FALSE),
                            !.m = L.m + 1, !.p = 1]
             ELSE LET r == type_contains_serialized_data(
                               method.request.params[L.p],
                               [hits |-> L.hits, misses |-> L.misses, error |-> "none",
                                trace |-> <<>>],
                               customs, 1)
                      last == [name |-> method.request.params[L.p], ret |-> r.ret,
                               trace |-> r.trace]
                  IN  IF r.error # "none"
                      THEN [L EXCEPT !.status = r.error]
                      ELSE IF r.ret
                      THEN [L EXCEPT !.hits = r.hits, !.misses = r.misses, !.last = last,
                                     !.table = SetEntry(L.table, service.name,
                                                        method.name, TRUE),
                                     !.m = L.m + 1, !.p = 1]
                      ELSE [L EXCEPT !.hits = r.hits, !.misses = r.misses, !.last = last,
                                     !.p = L.p + 1]

RECURSIVE lookup_run(_, _, _)
lookup_run(L, svcs, customs) ==
    IF L.status # "run" THEN L ELSE lookup_run(lookup_step(L, svcs, customs), svcs, customs)

generate_data_containing_requests_lookup_table(svcs, customs) ==
    lookup_run(lookup_start, svcs, customs)

\* Sample type names, custom type declarations and corpora.
TData == <<"Data">>
TString == <<"String">>
TA == <<"A">>
TB == <<"B">>
TypeSamples ==
    { TData, TString, TA,
      <<"List", "Data">>, <<"Set", "B">>, <<"ListCN", "String">>,
      <<"Map", "String", "String">>, <<"Map", "String", "A">>,
      <<"EntryList", "String", "List", "Data">>,
      <<"Map", "List", "Data", "String">> }

NoCustomTypes == [t \in {} |-> <<>>]
AcyclicCustomSamples ==
    { NoCustomTypes,
      TA :> <<TData>>,
      TA :> <<TString>>,
      (TA :> <<TString, TB>>) @@ (TB :> << <<"List", "Data">> >>),
      (TA :> <<TB>>) @@ (TB :> <<TString>>),
      (TA :> << <<"Map", "String", "B">> >>) @@ (TB :> <<TData>>) }
CyclicCustomSamples ==
    { TA :> <<TA>>,
      (TA :> <<TB>>) @@ (TB :> <<TA>>),
      TA :> << <<"List", "A">> >>,
      TA :> <<TData, TA>>,
      TA :> << <<"Map", "String", "A">> >>,
      (TA :> <<TString>>) @@ (TB :> <<TB, TData>>) }

DfRequests == SeqsUpTo(TypeSamples, 2)
DfMethodLists ==
    { << [name |-> "put", request |-> [params |-> r]] >> : r \in DfRequests }
      \cup { << [name |-> "put", request |-> [params |-> r]],
                [name |-> "get", request |-> [params |-> q]] >> :
               r \in DfRequests, q \in SeqsUpTo(TypeSamples, 1) }

InitData ==
    /\ CorpusIdsIdle
    /\ EncodeIdle
    /\ SaveIdle
    /\ custom_types \in AcyclicCustomSamples \cup CyclicCustomSamples
    /\ df_services \in {<< [name |-> "Map", methods |-> ms] >> : ms \in DfMethodLists}
    /\ lookup = lookup_start
    /\ VersionsIdle
    /\ ValidIdle
    /\ IdsIdle
    /\ GenIdle

\* type_contains_serialized_data is called for the next request parameter.
LookupClassify ==
    /\ lookup.status = "run" /\ lookup_at_param(lookup, df_services)
    /\ lookup' = lookup_step(lookup, df_services, custom_types)
    /\ UNCHANGED <<save, enc, id_docs, custom_types, df_services, versVars, validVars, id_doc, genVars>>

\* No parameter of the request was a hit.
LookupNoHit ==
    /\ lookup.status = "run" /\ lookup_at_params_end(lookup, df_services)
    /\ lookup' = lookup_step(lookup, df_services, custom_types)
    /\ UNCHANGED <<save, enc, id_docs, custom_types, df_services, versVars, validVars, id_doc, genVars>>

LookupNextService ==
    /\ lookup.status = "run" /\ lookup_at_service_end(lookup, df_services)
    /\ lookup' = lookup_step(lookup, df_services, custom_types)
    /\ UNCHANGED <<save, enc, id_docs, custom_types, df_services, versVars, validVars, id_doc, genVars>>

LookupReturn ==
    /\ lookup.status = "run" /\ lookup_at_end(lookup, df_services)
    /\ lookup' = lookup_step(lookup, df_services, custom_types)
    /\ UNCHANGED <<save, enc, id_docs, custom_types, df_services, versVars, validVars, id_doc, genVars>>

NextData == LookupClassify \/ LookupNoHit \/ LookupNextService \/ LookupReturn

SpecData == InitData /\ [][NextData]_vars

(***************************************************************************)
(* Message ID Assigner: the id assignment of generate_codecs.              *)
(*                                                                         *)
(* A method document is [name, id, request, response, events]; request and *)
(* response are records that gain the field id, an event is a record whose *)
(* declared id is overwritten.  A hexadecimal numeral is the sequence of   *)
(* the values 0..15 of its digits.                                         *)
(***************************************************************************)
RECURSIVE hex_digits(_)
hex_digits(n) == IF n < 16 THEN <<n>> ELSE hex_digits(n \div 16) \o <<n % 16>>

\* "%x" % n: no padding
format_x(n) == hex_digits(n)

\* "%02x" % n: at least two digits, padded with zeros on the left
format_02x(n) == IF Len(hex_digits(n)) < 2 THEN <<0>> \o hex_digits(n) ELSE hex_digits(n)

\* int("0x" + digits, 16)
RECURSIVE int_base16(_)
int_base16(digits) ==
    IF digits = <<>> THEN 0
    ELSE 16 * int_base16(SubSeq(digits, 1, Len(digits) - 1)) + digits[Len(digits)]

message_id_unpadded(service_id, method_id, kind) ==
    int_base16(format_02x(service_id) \o format_x(method_id) \o format_02x(kind))

\* int(id_fmt % (service_id, method_id, kind), 16) with id_fmt = "0x%02x%02x%02x"
message_id(service_id, method_id, kind) ==
    int_base16(format_02x(service_id) \o format_02x(method_id) \o format_02x(kind))

\* The events are numbered from 1 instead of 2.
assign_message_ids_from_one(service, method) ==
    [method EXCEPT
        !.request = ("id" :> message_id(service.id, method.id, 0)) @@ method.request,
        !.response = ("id" :> message_id(service.id, method.id, 1)) @@ method.response,
        !.events = [i \in 1..Len(method.events) |->
                       ("id" :> message_id(service.id, method.id, (i - 1) + 1))
                           @@ method.events[i]]]

\* The assignments to method["request"]["id"], method["response"]["id"] and
\* method["events"][i]["id"].
assign_message_ids(service, method) ==
    [method EXCEPT
        !.request = ("id" :> message_id(service.id, method.id, 0)) @@ method.request,
        !.response = ("id" :> message_id(service.id, method.id, 1)) @@ method.response,
        !.events = [i \in 1..Len(method.events) |->
                       ("id" :> message_id(service.id, method.id, (i - 1) + 2))
                           @@ method.events[i]]]

\* Sample documents: every pair of one-byte ids with two events, and a few ids
\* on both sides of the one-byte limit with no event or with event lists that
\* reach that limit.
MaxRuns == 2

MethodDoc(method_id, n) ==
    [name |-> "put", id |-> method_id,
     request |-> [params |-> <<>>], response |-> [params |-> <<>>],
     events |-> [i \in 1..n |-> [name |-> "event", id |-> i]]]

IdInputs ==
    {[service_id |-> sid, method_id |-> mid, events |-> 2] :
        sid \in 0..255, mid \in 0..255}
      \cup {[service_id |-> sid, method_id |-> mid, events |-> 0] :
              sid \in {0, 3, 255}, mid \in {0, 5, 255}}
      \cup {[service_id |-> sid, method_id |-> mid, events |-> n] :
              sid \in {0, 3, 255, 256}, mid \in {5, 255}, n \in {254, 255}}
      \cup {[service_id |-> sid, method_id |-> 256, events |-> 2] : sid \in {3, 256}}

InitIds ==
    /\ CorpusIdsIdle
    /\ EncodeIdle
    /\ SaveIdle
    /\ \E in \in IdInputs :
          id_doc = [done |-> TRUE, declared |-> in, runs |-> 0,
                    service |-> [name |-> "Map", id |-> in.service_id],
                    method |-> MethodDoc(in.method_id, in.events)]
    /\ VersionsIdle
    /\ ValidIdle
    /\ DataIdle
    /\ GenIdle

\* The id assignment of one pass of generate_codecs over the method; a further
\* pass (the next target language) finds the documents as the pass before
\* left them.
AssignMessageIds ==
    /\ id_doc.runs < MaxRuns
    /\ id_doc' = [id_doc EXCEPT !.runs = id_doc.runs + 1,
                                !.method = assign_message_ids(id_doc.service,
                                                              id_doc.method)]
    /\ UNCHANGED <<save, enc, id_docs, versVars, validVars, dataVars, genVars>>

NextIds == AssignMessageIds

SpecIds == InitIds /\ [][NextIds]_vars

(***************************************************************************)
(* Message ID Assigner: the id assignment over two methods of the corpus.  *)
(***************************************************************************)
\* Ids and event counts on both sides of the one-byte limit.  The ids have to
\* stay below 2^31 here, so an event list that goes beyond the limit comes
\* with a service id and a method id that do not.
CorpusIdInputs ==
    {in \in [service_id : {0, 1, 255, 256}, method_id : {0, 1, 255, 256},
             events : {0, 2, 255}] :
        in.events = 255 => (in.service_id <= 255 /\ in.method_id <= 255)}

CorpusDoc(in) ==
    [declared |-> in,
     service |-> [name |-> "Map", id |-> in.service_id],
     method |-> MethodDoc(in.method_id, in.events)]

InitCorpusIds ==
    /\ \E a \in CorpusIdInputs, b \in CorpusIdInputs :
          /\ <<a.service_id, a.method_id>> # <<b.service_id, b.method_id>>
          /\ id_docs = [done |-> TRUE, assigned |-> FALSE,
                        docs |-> <<CorpusDoc(a), CorpusDoc(b)>>]
    /\ VersionsIdle
    /\ ValidIdle
    /\ DataIdle
    /\ IdsIdle
    /\ GenIdle
    /\ SaveIdle
    /\ EncodeIdle

\* The id assignment of generate_codecs over the two methods, in document order.
AssignCorpusIds ==
    /\ id_docs.done /\ ~id_docs.assigned
    /\ id_docs' = [id_docs EXCEPT
          !.assigned = TRUE,
          !.docs = [k \in 1..Len(id_docs.docs) |->
                       [id_docs.docs[k] EXCEPT
                           !.method = assign_message_ids(id_docs.docs[k].service,
                                                         id_docs.docs[k].method)]]]
    /\ UNCHANGED <<save, enc, versVars, validVars, dataVars, id_doc, genVars>>

NextCorpusIds == AssignCorpusIds

SpecCorpusIds == InitCorpusIds /\ [][NextCorpusIds]_vars

(***************************************************************************)
(* Codec Emission Orchestrator and Artifact Writer: generate_codecs.       *)
(*                                                                         *)
(* Service names, method names, ignore patterns and file names are         *)
(* sequences of characters.  A text is a sequence of tokens, each a record *)
(* with the field token: the placeholder "!codec_hash!", a digest, a fixed *)
(* piece of text, or what a template made of the context it was rendered   *)
(* with.  The renderer returns a text or raises NotImplementedError; which *)
(* of the two is the renderer's choice.                                    *)
(***************************************************************************)
\* fnmatch.fnmatch(name, pattern) for patterns of literals, "?" and "*"; the
\* whole name has to match.
RECURSIVE fnmatch_whole(_, _)
fnmatch_whole(name, pattern) ==
    IF pattern = <<>> THEN name = <<>>
    ELSE IF Head(pattern) = "*"
    THEN \/ fnmatch_whole(name, Tail(pattern))
         \/ name # <<>> /\ fnmatch_whole(Tail(name), pattern)
    ELSE IF Head(pattern) = "?"
    THEN name # <<>> /\ fnmatch_whole(Tail(name), Tail(pattern))
    ELSE /\ name # <<>> /\ Head(name) = Head(pattern)
         /\ fnmatch_whole(Tail(name), Tail(pattern))

\* The pattern is searched for in the name instead of matched from its start.
fnmatch_search(name, pattern) ==
    \E k \in 0..Len(name) : fnmatch_whole(SubSeq(name, k + 1, Len(name)), pattern)

RECURSIVE fnmatch(_, _)
fnmatch(name, pattern) ==
    IF pattern = <<>> THEN name = <<>>
    ELSE IF Head(pattern) = "*"
    THEN \/ fnmatch(name, Tail(pattern))
         \/ name # <<>> /\ fnmatch(Tail(name), pattern)
    ELSE IF Head(pattern) = "?"
    THEN name # <<>> /\ fnmatch(Tail(name), Tail(pattern))
    ELSE /\ name # <<>> /\ Head(name) = Head(pattern)
         /\ fnmatch(Tail(name), Tail(pattern))

ignore_service_or_method(name, patterns) ==
    \E pattern \in patterns : fnmatch(name, pattern)

ignore_service(service, patterns) ==
    ignore_service_or_method(service.name, patterns)

ignore_method(service, method, patterns) ==
    ignore_service_or_method(service.name \o <<".">> \o method.name, patterns)

\* txt[0].capitalize() + txt[1:]
UpperCase(c) ==
    CASE c = "a" -> "A" [] c = "e" -> "E" [] c = "g" -> "G" [] c = "p" -> "P"
      [] c = "t" -> "T" [] c = "u" -> "U" [] OTHER -> c
capital(txt) == <<UpperCase(txt[1])>> \o Tail(txt)

\* _capitalized_name_generator(extension)(service_name, method_name)
capitalized_name(extension, service_name, method_name) ==
    capital(service_name) \o capital(method_name)
        \o <<"C", "o", "d", "e", "c", ".">> \o extension

CodecsH == <<"c", "o", "d", "e", "c", "s", ".", "h">>
CodecsCpp == <<"c", "o", "d", "e", "c", "s", ".", "c", "p", "p">>

\* hashlib.md5 of a text: the digest stands for the text it was taken of.
md5(content) == [token |-> "md5", of |-> content]

\* content.replace("!codec_hash!", codec_hash)
replace_codec_hash(content, codec_hash) ==
    [k \in 1..Len(content) |->
        IF content[k].token = "!codec_hash!" THEN codec_hash ELSE content[k]]

\* str.endswith
endswith(txt, suffix) ==
    /\ Len(txt) >= Len(suffix)
    /\ SubSeq(txt, Len(txt) - Len(suffix) + 1, Len(txt)) = suffix

LF == [token |-> "\n"]
IsBlank(c) == c.token = " " \/ c.token = "\t"

\* content.replace("\r\n", "\n")
RECURSIVE replace_crlf(_)
replace_crlf(content) ==
    IF content = <<>> THEN <<>>
    ELSE IF Len(content) >= 2 /\ content[1].token = "\r" /\ content[2].token = "\n"
    THEN <<LF>> \o replace_crlf(SubSeq(content, 3, Len(content)))
    ELSE <<content[1]>> \o replace_crlf(Tail(content))

\* content.replace("\r", "\n")
replace_cr(content) ==
    [k \in 1..Len(content) |-> IF content[k].token = "\r" THEN LF ELSE content[k]]

\* re.sub("[ \t]+$", "", content, 0, re.M): a run of blanks goes when it
\* reaches the end of the text or stands right before a "\n".
RECURSIVE sub_trailing_blanks(_)
sub_trailing_blanks(content) ==
    IF content = <<>> THEN <<>>
    ELSE LET rest == Tail(content)
             after == {k \in 1..Len(rest) : ~IsBlank(rest[k])}
             at_line_end ==
                 \/ after = {}
                 \/ rest[CHOOSE k \in after : \A j \in after : k <= j].token = "\n"
         IN  IF IsBlank(content[1]) /\ at_line_end
             THEN sub_trailing_blanks(rest)
             ELSE <<content[1]>> \o sub_trailing_blanks(rest)

\* content.rstrip("\n")
RECURSIVE rstrip_lf(_)
rstrip_lf(content) ==
    IF content # <<>> /\ content[Len(content)].token = "\n"
    THEN rstrip_lf(SubSeq(content, 1, Len(content) - 1))
    ELSE content

\* The content save_file hashes and writes: rewritten for a ".cs" file, as
\* handed over for any other.
normalized(file, content) ==
    IF endswith(file, <<".", "c", "s">>)
    THEN rstrip_lf(sub_trailing_blanks(replace_cr(replace_crlf(content)))) \o <<LF>>
    ELSE content

\* The digest is taken of the content as handed over, before it is rewritten.
save_file_hash_first(fs, file, content, mode) ==
    LET written == replace_codec_hash(normalized(file, content), md5(content))
    IN  IF mode = "w" \/ file \notin DOMAIN fs
        THEN (file :> written) @@ fs
        ELSE (file :> fs[file] \o written) @@ fs

\* save_file: mode "w" replaces the file, "a+" appends to it.
save_file(fs, file, content, mode) ==
    LET text == normalized(file, content)
        codec_hash == md5(text)
        written == replace_codec_hash(text, codec_hash)
    IN  IF mode = "w" \/ file \notin DOMAIN fs
        THEN (file :> written) @@ fs
        ELSE (file :> fs[file] \o written) @@ fs

\* The text of one of the fixed files header_includes.txt, source_header.txt
\* and footer.txt.
fixed_text(name) == << [token |-> name] >>

\* The text a template renders to.
render(template, service_name, method, flag) ==
    << [token |-> "!codec_hash!"],
       [token |-> "rendered", template |-> template, service_name |-> service_name,
        method |-> method, contains_serialized_data_in_request |-> flag] >>

\* The loops "for service in services / for method in service['methods']":
\* gen.mi = 0 stands before the service's ignore check.
gen_at_end == gen.si > Len(gen_services)
gen_at_service == ~gen_at_end /\ gen.mi = 0
gen_at_service_end ==
    ~gen_at_end /\ gen.mi > Len(gen_services[gen.si].methods)
gen_at_method ==
    ~gen_at_end /\ gen.mi >= 1 /\ gen.mi <= Len(gen_services[gen.si].methods)

\* makedirs, the lookup table and, for cpp, the two running files opened with
\* their headers.
GenStart ==
    /\ gen.pc = "start"
    /\ LET table == generate_data_containing_requests_lookup_table(gen_services, <<>>)
       IN  IF table.status = "returned"
           THEN /\ gen' = [gen EXCEPT !.pc = "loop", !.si = 1, !.mi = 0,
                                      !.table = table.table]
                /\ files' = IF lang = "cpp"
                            THEN save_file(
                                     save_file(files, CodecsH, fixed_text("header_includes"), "w"),
                                     CodecsCpp, fixed_text("source_header"), "w")
                            ELSE files
           ELSE /\ gen' = [gen EXCEPT !.pc = table.status]
                /\ files' = files
    /\ UNCHANGED <<save, enc, id_docs, gen_services, lang, ignore_list, versVars, validVars, dataVars, id_doc>>

GenIgnoreService ==
    /\ gen.pc = "loop" /\ gen_at_service
    /\ ignore_service(gen_services[gen.si], ignore_list)
    /\ gen' = [gen EXCEPT !.si = gen.si + 1,
                          !.ignored = gen.ignored \cup {gen_services[gen.si].name}]
    /\ UNCHANGED <<save, enc, id_docs, gen_services, lang, ignore_list, files,
                   versVars, validVars, dataVars, id_doc>>

GenEnterService ==
    /\ gen.pc = "loop" /\ gen_at_service
    /\ ~ignore_service(gen_services[gen.si], ignore_list)
    /\ gen' = [gen EXCEPT !.mi = 1]
    /\ UNCHANGED <<save, enc, id_docs, gen_services, lang, ignore_list, files,
                   versVars, validVars, dataVars, id_doc>>

GenIgnoreMethod ==
    /\ gen.pc = "loop" /\ gen_at_method
    /\ LET service == gen_services[gen.si]
           method == service.methods[gen.mi]
       IN  /\ ignore_method(service, method, ignore_list)
           /\ gen' = [gen EXCEPT !.mi = gen.mi + 1,
                                 !.ignored = gen.ignored
                                     \cup {service.name \o <<".">> \o method.name}]
    /\ UNCHANGED <<save, enc, id_docs, gen_services, lang, ignore_list, files,
                   versVars, validVars, dataVars, id_doc>>

\* The body of the method loop for a method that is not ignored: the ids are
\* written onto the method, the templates are rendered and what they return is
\* saved; raises is what the renderer raises NotImplementedError for ("none",
\* the only template of the language - "codec" -, or one of the two templates
\* "h" and "cpp").
GenEmitMethod(raises) ==
    /\ gen.pc = "loop" /\ gen_at_method
    /\ LET service == gen_services[gen.si]
           method == assign_message_ids(service, service.methods[gen.mi])
           flag == gen.table[<<service.name, method.name>>]
       IN  /\ ~ignore_method(service, service.methods[gen.mi], ignore_list)
           /\ gen_services' = [gen_services EXCEPT ![gen.si].methods[gen.mi] = method]
           /\ IF lang = "cpp"
              THEN /\ raises \in {"none", "h", "cpp"}
                   /\ files' =
                        IF raises = "h" THEN files
                        ELSE LET with_h == save_file(files, CodecsH,
                                               render("codec-template.h.j2",
                                                      service.name, method, flag), "a+")
                             IN  IF raises = "cpp" THEN with_h
                                 ELSE save_file(with_h, CodecsCpp,
                                          render("codec-template.cpp.j2",
                                                 service.name, method, flag), "a+")
              ELSE /\ raises \in {"none", "codec"}
                   /\ files' =
                        IF raises = "codec" THEN files
                        ELSE save_file(files,
                                 capitalized_name(<<lang>>, service.name, method.name),
                                 render("codec-template", service.name, method, flag), "w")
           /\ gen' = [gen EXCEPT !.mi = gen.mi + 1,
                                 !.rendered = gen.rendered \cup {<<gen.si, gen.mi>>},
                                 !.unsupported =
                                    IF raises = "none" THEN gen.unsupported
                                    ELSE gen.unsupported \cup {<<gen.si, gen.mi>>}]
    /\ UNCHANGED <<save, enc, id_docs, lang, ignore_list, versVars, validVars, dataVars, id_doc>>

GenNextService ==
    /\ gen.pc = "loop" /\ gen_at_service_end
    /\ gen' = [gen EXCEPT !.si = gen.si + 1, !.mi = 0]
    /\ UNCHANGED <<save, enc, id_docs, gen_services, lang, ignore_list, files,
                   versVars, validVars, dataVars, id_doc>>

\* After the loops: for cpp the footer closes the two running files.
GenFinish ==
    /\ gen.pc = "loop" /\ gen_at_end
    /\ gen' = [gen EXCEPT !.pc = "returned"]
    /\ files' = IF lang = "cpp"
                THEN save_file(save_file(files, CodecsH, fixed_text("footer"), "a+"),
                               CodecsCpp, fixed_text("footer"), "a+")
                ELSE files
    /\ UNCHANGED <<save, enc, id_docs, gen_services, lang, ignore_list, versVars, validVars, dataVars, id_doc>>

\* Sample corpora, languages and ignore lists.
NameMap == <<"M", "a", "p">>
NameXMap == <<"X", "M", "a", "p">>
NameQ == <<"Q">>
NamePut == <<"p", "u", "t">>
NameGet == <<"g", "e", "t">>
PatternMapAll == <<"M", "a", "p", ".", "*">>
PatternQ == <<"Q">>
PatternXMapGet == <<"X", "M", "a", "p", ".", "g", "e", "t">>

GenPut ==
    [name |-> NamePut, id |-> 1,
     request |-> [params |-> << <<"List", "Data">> >>], response |-> [params |-> <<>>],
     events |-> << [name |-> "event", id |-> 1] >>]
GenGet ==
    [name |-> NameGet, id |-> 2,
     request |-> [params |-> << <<"String">> >>], response |-> [params |-> <<>>],
     events |-> <<>>]
GenServiceSamples ==
    {[name |-> NameMap, id |-> 1, methods |-> ms] : ms \in {<<GenPut>>, <<GenPut, GenGet>>}}
      \cup {[name |-> NameXMap, id |-> 2, methods |-> ms] :
              ms \in {<<GenPut>>, <<GenPut, GenGet>>}}
      \cup {[name |-> NameQ, id |-> 3, methods |-> <<GenPut>>]}
GenCorpora ==
    {<<a>> : a \in GenServiceSamples}
      \cup {c \in {<<a, b>> : a \in GenServiceSamples, b \in GenServiceSamples} :
               c[1].name # c[2].name}
IgnoreLists ==
    { {}, {PatternMapAll}, {PatternQ}, {PatternMapAll, PatternQ},
      {PatternMapAll, PatternXMapGet} }

InitGen ==
    /\ CorpusIdsIdle
    /\ EncodeIdle
    /\ SaveIdle
    /\ gen_services \in GenCorpora
    /\ lang \in {"java", "cpp"}
    /\ ignore_list \in IgnoreLists
    /\ gen = [done |-> TRUE, pc |-> "start", si |-> 1, mi |-> 0, table |-> <<>>,
              ignored |-> {}, rendered |-> {}, unsupported |-> {}]
    /\ files = <<>>
    /\ VersionsIdle
    /\ ValidIdle
    /\ DataIdle
    /\ IdsIdle

NextGen ==
    \/ GenStart
    \/ GenIgnoreService
    \/ GenEnterService
    \/ GenIgnoreMethod
    \/ \E raises \in {"none", "codec", "h", "cpp"} : GenEmitMethod(raises)
    \/ GenNextService
    \/ GenFinish

SpecGen == InitGen /\ [][NextGen]_vars

(***************************************************************************)
(* Artifact Writer: save_file called on its own, first to write a file,    *)
(* then to append to it.                                                   *)
(***************************************************************************)
MaxText == 3

Placeholder == [token |-> "!codec_hash!"]

TextTokens ==
    {Placeholder, LF, [token |-> "\r"], [token |-> " "], [token |-> "x"]}

Texts(n) == SeqsUpTo(TextTokens, n)

FileSamples ==
    {<<"A", ".", "c", "s">>, <<"A", ".", "j", "a", "v", "a">>}

InitSave ==
    /\ CorpusIdsIdle
    /\ EncodeIdle
    /\ save = [done |-> TRUE, calls |-> 0]
    /\ VersionsIdle
    /\ ValidIdle
    /\ DataIdle
    /\ IdsIdle
    /\ GenIdle

\* save_file(file, content): the default mode "w"
SaveWrite ==
    /\ save.done /\ save.calls = 0
    /\ \E file \in FileSamples, content \in Texts(MaxText) :
          /\ files' = save_file(files, file, content, "w")
          /\ save' = [done |-> TRUE, calls |-> 1, file |-> file,
                      content |-> content, mode |-> "w", before |-> 0]
    /\ UNCHANGED <<gen_services, lang, ignore_list, gen,
                   versVars, validVars, dataVars, id_doc, enc, id_docs>>

\* save_file(file, content, "a+") on the file written before
SaveAppend ==
    /\ save.done /\ save.calls = 1
    /\ \E content \in Texts(MaxText - 1) :
          /\ files' = save_file(files, save.file, content, "a+")
          /\ save' = [save EXCEPT !.calls = 2, !.content = content, !.mode = "a+",
                                  !.before = Len(files[save.file])]
    /\ UNCHANGED <<gen_services, lang, ignore_list, gen,
                   versVars, validVars, dataVars, id_doc, enc, id_docs>>

NextSave ==
    \/ SaveWrite
    \/ SaveAppend

SpecSave == InitSave /\ [][NextSave]_vars

(***************************************************************************)
(* Version Registry: version_to_number applied to two versions.            *)
(***************************************************************************)
EncMajors == {0, 2, 3}
EncComponents == {0, 1, 5, 99, 100}

EncTriples == EncMajors \X EncComponents \X EncComponents

InitEncode ==
    /\ CorpusIdsIdle
    /\ \E a \in EncTriples, b \in EncTriples :
          enc = [done |-> TRUE, encoded |-> FALSE, a |-> a, b |-> b]
    /\ VersionsIdle
    /\ ValidIdle
    /\ DataIdle
    /\ IdsIdle
    /\ GenIdle
    /\ SaveIdle

VersionToNumber ==
    /\ enc.done /\ ~enc.encoded
    /\ enc' = [done |-> TRUE, encoded |-> TRUE, a |-> enc.a, b |-> enc.b,
               na |-> version_to_number(enc.a[1], enc.a[2], enc.a[3]),
               nb |-> version_to_number(enc.b[1], enc.b[2], enc.b[3])]
    /\ UNCHANGED <<save, id_docs, versVars, validVars, dataVars, id_doc, genVars>>

NextEncode == VersionToNumber

SpecEncode == InitEncode /\ [][NextEncode]_vars

(***************************************************************************)
(* Claims about the "since" checks.                                        *)
(***************************************************************************)
\* The dotted components of a "since", the patch defaulting to 0.
Component(v, n) == IF n <= Len(v) THEN v[n] ELSE 0

\* v is lower than w in the lexicographic order of (major, minor, patch)
VersionLower(v, w) ==
    \/ Component(v, 1) < Component(w, 1)
    \/ /\ Component(v, 1) = Component(w, 1)
       /\ Component(v, 2) < Component(w, 2)
    \/ /\ Component(v, 1) = Component(w, 1)
       /\ Component(v, 2) = Component(w, 2)
       /\ Component(v, 3) < Component(w, 3)

\* The positions whose "since" is lower than that of the element just before
\* (the owner, for the first parameter).
OutOfOrder ==
    {k \in 1..Len(params) :
        VersionLower(params[k], IF k = 1 THEN since ELSE params[k - 1])}

\* C2: is_parameters_ordered_and_semantically_correct returns false whenever
\* the owner's "since" is greater than the first parameter's or a parameter's
\* "since" is lower than that of the parameter just before it, with the
\* ordering diagnostic printed for exactly those parameters; when the sequence
\* owner, p1, p2, ... is non-decreasing the ordering part does not fail.
C2_SinceOrdering ==
    par_result.done =>
        /\ (OutOfOrder # {} => ~par_result.ret)
        /\ (OutOfOrder = {} => par_result.is_ordered)
        /\ par_result.unordered = OutOfOrder

\* The example [1.0, 1.1, 1.0] under an owner of 1.0 fails at the third parameter.
C2_Witness ==
    /\ par_result.done
    /\ since = <<1, 0>>
    /\ params = << <<1, 0>>, <<1, 1>>, <<1, 0>> >>
    /\ ~par_result.ret
    /\ par_result.unordered = {3}

IsFirstKnown == get_version_as_number(since) = protocol_versions[1]
IsMajorBump == Component(since, 2) = 0 /\ Component(since, 3) = 0
IsMinorIncrement == Component(since, 2) > 0 /\ Component(since, 3) = 0

\* C3: for a version that is neither the first known version nor a major bump,
\* is_semantically_correct_param accepts it iff its immediate predecessor is
\* known: the encoded value minus 100 for a minor increment (patch = 0), the
\* encoded value minus 1 for a patch increment.
C3_PredecessorKnown ==
    (sem_result.done /\ ~IsFirstKnown /\ ~IsMajorBump) =>
        (sem_result.ret <=>
            (IF IsMinorIncrement
             THEN sem_result.version - 100
             ELSE sem_result.version - 1) \in Range(protocol_versions))

\* A minor increment accepted because the previous minor version is known.
C3_Witness ==
    /\ sem_result.done
    /\ ~IsFirstKnown
    /\ IsMinorIncrement
    /\ (sem_result.version - 100) \in Range(protocol_versions)
    /\ sem_result.ret

\* C4: is_semantically_correct_param accepts the first known version and every
\* major bump M.0, whatever the known versions are.
C4_FirstAndMajorExempt ==
    (sem_result.done /\ (IsFirstKnown \/ IsMajorBump)) => sem_result.ret

(***************************************************************************)
(* Claims about validate_services.                                         *)
(***************************************************************************)
\* C1: with id checking enabled, validate_services returns true only if every
\* service whose name is not exempt declares id equal to its position in the
\* loaded list and every method of every loaded service, exempt or not,
\* declares id equal to its position within the service plus 1.
C1_IdsChecked ==
    (vs_result.done /\ ~no_id_check /\ vs_result.ret) =>
        /\ \A i \in 1..Len(services) :
              services[i].name \notin {"Jet", "Experimental"}
                  => services[i].id = i - 1
        /\ \A i \in 1..Len(services) :
              \A j \in 1..Len(services[i].methods) :
                  services[i].methods[j].id = (j - 1) + 1

\* C5: a schema violation in the service at position i does not stop the
\* checking of the services after it: every id and "since" diagnostic of every
\* later schema-valid service has been printed when validate_services returns.
C5_WholeCorpusChecked ==
    vs_result.done =>
        \A i \in 1..Len(services) :
            validate_against_schema(services[i]) =>
                service_diagnostics(i - 1, services[i], no_id_check,
                    SortedSeq({get_version_as_number(v) :
                                  v \in get_protocol_versions(services)}))
                  \subseteq vs_result.log

(***************************************************************************)
(* Claims about the data-flow analysis.                                    *)
(***************************************************************************)
\* The custom types a custom type's parameters mention.
References(customs, a) ==
    {b \in DOMAIN customs :
        \E k \in 1..Len(customs[a]) :
            \E n \in 1..Len(customs[a][k]) : <<customs[a][k][n]>> = b}

RECURSIVE ReachableIn(_, _, _)
ReachableIn(customs, S, n) ==
    IF n = 0 THEN S
    ELSE ReachableIn(customs, S \cup UNION {References(customs, b) : b \in S}, n - 1)

Acyclic(customs) ==
    \A a \in DOMAIN customs :
        a \notin ReachableIn(customs, References(customs, a),
                             Cardinality(DOMAIN customs))

\* The rules, a name being read the way "Map_K_V" suggests: K and V are type
\* names of their own, containers included (prefix notation).
RECURSIVE ReadType(_, _)
ReadType(name, customs) ==
    IF name = <<>> THEN [hit |-> FALSE, rest |-> <<>>]
    ELSE IF startswith(name, {"List", "ListCN", "Set"})
    THEN ReadType(Tail(name), customs)
    ELSE IF startswith(name, {"Map", "EntryList"})
    THEN LET key == ReadType(Tail(name), customs)
             value == ReadType(key.rest, customs)
         IN  [hit |-> key.hit \/ value.hit, rest |-> value.rest]
    ELSE [hit |-> \/ name[1] = "Data"
                  \/ /\ <<name[1]>> \in DOMAIN customs
                     /\ \E k \in 1..Len(customs[<<name[1]>>]) :
                            ReadType(customs[<<name[1]>>][k], customs).hit,
          rest |-> Tail(name)]

\* The rules, K being the text between the first two underscores and V all
\* that follows the second.
RECURSIVE RuleHit(_, _)
RuleHit(name, customs) ==
    IF name = <<"Data">> THEN TRUE
    ELSE IF startswith(name, {"List", "ListCN", "Set"})
    THEN RuleHit(Tail(name), customs)
    ELSE IF startswith(name, {"Map", "EntryList"})
    THEN \/ RuleHit(<<name[2]>>, customs)
         \/ RuleHit(SubSeq(name, 3, Len(name)), customs)
    ELSE /\ name \in DOMAIN customs
         /\ \E k \in 1..Len(customs[name]) : RuleHit(customs[name][k], customs)

MethodsOf(svcs) ==
    UNION {{<<i, j>> : j \in 1..Len(svcs[i].methods)} : i \in 1..Len(svcs)}

\* C7 as stated: on an acyclic custom-type graph the returned table maps each
\* (service, method) to true iff some request parameter type is a hit, a
\* Map_K_V / EntryList_K_V being a hit iff K or V is, also when K or V is
\* itself a container type name.
C7_TableByRules ==
    (lookup.done /\ lookup.status = "returned" /\ Acyclic(custom_types)) =>
        \A ij \in MethodsOf(df_services) :
            LET service == df_services[ij[1]]
                method == service.methods[ij[2]]
            IN  /\ <<service.name, method.name>> \in DOMAIN lookup.table
                /\ lookup.table[<<service.name, method.name>>] =
                     (\E p \in 1..Len(method.request.params) :
                          ReadType(method.request.params[p], custom_types).hit)

\* C7 as amended: the same, K being the single segment between the first and
\* second underscore and V everything after the second underscore, so that
\* only V can be a container type name.
C7_TableByRulesAsSplit ==
    (lookup.done /\ lookup.status = "returned" /\ Acyclic(custom_types)) =>
        \A ij \in MethodsOf(df_services) :
            LET service == df_services[ij[1]]
                method == service.methods[ij[2]]
            IN  /\ <<service.name, method.name>> \in DOMAIN lookup.table
                /\ lookup.table[<<service.name, method.name>>] =
                     (\E p \in 1..Len(method.request.params) :
                          RuleHit(method.request.params[p], custom_types))

\* A table with List_Data a hit, Map_String_String a miss and a hit through a
\* custom type inside a map value.
C7_Witness ==
    /\ lookup.done /\ lookup.status = "returned"
    /\ custom_types = (TA :> <<TString, TB>>) @@ (TB :> << <<"List", "Data">> >>)
    /\ df_services[1].methods =
         << [name |-> "put",
             request |-> [params |-> << <<"Map", "String", "String">>,
                                        <<"Map", "String", "A">> >>]],
            [name |-> "get",
             request |-> [params |-> << <<"Map", "String", "String">> >>]] >>
    /\ lookup.table[<<"Map", "put">>] = TRUE
    /\ lookup.table[<<"Map", "get">>] = FALSE
    /\ <<"List", "Data">> \in lookup.hits
    /\ <<"Map", "String", "String">> \in lookup.misses

\* C8: when the custom-type reference graph has a cycle, the classification
\* still terminates with a boolean: the recursion is never given up.
C8_CyclicTerminates ==
    (lookup.done /\ ~Acyclic(custom_types)) => lookup.status # "RecursionError"

RenderedIn(content, service_name, method_name) ==
    \E k \in 1..Len(content) :
        /\ content[k].token = "rendered"
        /\ content[k].service_name = service_name
        /\ content[k].method.name = method_name

WrittenTo(si, mi) ==
    {f \in DOMAIN files :
        RenderedIn(files[f], gen_services[si].name, gen_services[si].methods[mi].name)}

\* The method's artifact is in the output: in both running files for cpp, in
\* a file of its own otherwise.
Emitted(si, mi) ==
    IF lang = "cpp" THEN {CodecsH, CodecsCpp} \subseteq WrittenTo(si, mi)
    ELSE WrittenTo(si, mi) # {}

QualifiedName(si, mi) ==
    gen_services[si].name \o <<".">> \o gen_services[si].methods[mi].name

\* What an ignore pattern stands for: a pattern ending in "*" covers the names
\* that start with what precedes the "*", any other pattern its own text.
Covers(pattern, name) ==
    IF pattern[Len(pattern)] = "*"
    THEN /\ Len(name) >= Len(pattern) - 1
         /\ SubSeq(name, 1, Len(pattern) - 1) = SubSeq(pattern, 1, Len(pattern) - 1)
    ELSE name = pattern

OnIgnoreList(si, mi) ==
    \E pattern \in ignore_list :
        Covers(pattern, gen_services[si].name) \/ Covers(pattern, QualifiedName(si, mi))

\* C9: when the renderer raises NotImplementedError for a method, nothing
\* rendered for that method is written to any output file, every other method
\* that is not ignored is still emitted, and generate_codecs does not fail.
C9_UnsupportedSkipsOnlyThatMethod ==
    gen.done =>
        /\ gen.pc \in {"start", "loop", "returned"}
        /\ \A ij \in gen.unsupported : WrittenTo(ij[1], ij[2]) = {}
        /\ gen.pc = "returned" =>
              \A ij \in MethodsOf(gen_services) :
                  (~OnIgnoreList(ij[1], ij[2]) /\ ij \notin gen.unsupported)
                      => Emitted(ij[1], ij[2])

\* C10 as stated: with "Map.*" on the ignore list, generate_codecs emits no
\* artifact for any method of the service named "Map" and raises no error,
\* while every method of every other service whose qualified name matches no
\* ignore pattern is emitted.
C10_MapIgnoredOthersEmitted ==
    (gen.done /\ PatternMapAll \in ignore_list) =>
        /\ gen.pc \in {"start", "loop", "returned"}
        /\ \A ij \in MethodsOf(gen_services) :
              gen_services[ij[1]].name = NameMap => WrittenTo(ij[1], ij[2]) = {}
        /\ gen.pc = "returned" =>
              \A ij \in MethodsOf(gen_services) :
                  (gen_services[ij[1]].name # NameMap /\ ~OnIgnoreList(ij[1], ij[2]))
                      => Emitted(ij[1], ij[2])

\* C10 as amended: with "Map.*" on the ignore list, generate_codecs renders and
\* emits nothing for any method of the service named "Map" and raises no
\* error, while every method of every other service that no ignore pattern
\* matches is handed to the renderer, and is emitted unless the renderer raises
\* NotImplementedError for it.
C10_MapIgnoredOthersRendered ==
    (gen.done /\ PatternMapAll \in ignore_list) =>
        /\ gen.pc \in {"start", "loop", "returned"}
        /\ \A ij \in MethodsOf(gen_services) :
              gen_services[ij[1]].name = NameMap =>
                  WrittenTo(ij[1], ij[2]) = {} /\ ij \notin gen.rendered
        /\ gen.pc = "returned" =>
              \A ij \in MethodsOf(gen_services) :
                  (gen_services[ij[1]].name # NameMap /\ ~OnIgnoreList(ij[1], ij[2]))
                      => /\ ij \in gen.rendered
                         /\ ij \notin gen.unsupported => Emitted(ij[1], ij[2])

\* Map and XMap generated under the ignore list {"Map.*"}: both methods of Map
\* were skipped with a notice, both methods of XMap are in the output.
C10_Witness ==
    /\ gen.done /\ gen.pc = "returned"
    /\ ignore_list = {PatternMapAll}
    /\ Len(gen_services) = 2
    /\ gen_services[1].name = NameMap /\ Len(gen_services[1].methods) = 2
    /\ gen_services[2].name = NameXMap /\ Len(gen_services[2].methods) = 2
    /\ gen.ignored = {NameMap \o <<".">> \o NamePut, NameMap \o <<".">> \o NameGet}
    /\ WrittenTo(1, 1) = {} /\ WrittenTo(1, 2) = {}
    /\ Emitted(2, 1) /\ Emitted(2, 2)

(***************************************************************************)
(* Claims about save_file.                                                 *)
(***************************************************************************)
\* What the last call of save_file put into its file.
WrittenPart ==
    SubSeq(files[save.file], save.before + 1, Len(files[save.file]))

IsDigest(c) == c.token = "md5"

EmbeddedHashes == {WrittenPart[k] : k \in {j \in 1..Len(WrittenPart) : IsDigest(WrittenPart[j])}}

\* The written text without what stands at the placeholder positions.
PlaceholderExcluded == SelectSeq(WrittenPart, LAMBDA c : ~IsDigest(c))

\* The written text with the placeholder token back at its positions.
PlaceholderRestored ==
    [k \in 1..Len(WrittenPart) |->
        IF IsDigest(WrittenPart[k]) THEN Placeholder ELSE WrittenPart[k]]

PlaceholderFilled ==
    (\E k \in 1..Len(save.content) : save.content[k] = Placeholder)
        => /\ EmbeddedHashes # {}
           /\ \A k \in 1..Len(WrittenPart) : WrittenPart[k] # Placeholder

\* C11 as stated: the hash save_file puts at the placeholder is the hash of
\* the normalized content with the placeholder token left out of the hashed
\* bytes.
C11_HashExcludesPlaceholder ==
    save.calls >= 1 =>
        /\ PlaceholderFilled
        /\ \A codec_hash \in EmbeddedHashes : codec_hash = md5(PlaceholderExcluded)

\* C11 as amended: the hash save_file puts at the placeholder is the hash of
\* the normalized content with the placeholder token in it: hashing the written
\* text with the token put back where the hash stands gives the embedded hash.
C11_HashOfContentWithPlaceholder ==
    save.calls >= 1 =>
        /\ PlaceholderFilled
        /\ \A codec_hash \in EmbeddedHashes : codec_hash = md5(PlaceholderRestored)

\* A text with the placeholder and a trailing blank appended to a ".cs" file:
\* the blank is gone, the text ends in one "\n" and carries its hash.
C11_Witness ==
    /\ save.calls = 2 /\ save.mode = "a+" /\ save.before > 0
    /\ save.file = <<"A", ".", "c", "s">>
    /\ save.content = <<Placeholder, [token |-> " "]>>
    /\ WrittenPart = <<md5(<<Placeholder, LF>>), LF>>

(***************************************************************************)
(* Claims about version_to_number.                                         *)
(***************************************************************************)
LexLess(a, b) ==
    \/ a[1] < b[1]
    \/ a[1] = b[1] /\ a[2] < b[2]
    \/ a[1] = b[1] /\ a[2] = b[2] /\ a[3] < b[3]

BelowHundred(a) == a[2] < 100 /\ a[3] < 100

\* C12: for two versions with minor < 100 and patch < 100, the one that is
\* lexicographically lower in (major, minor, patch) has the lower number.
C12_StrictlyMonotonic ==
    (enc.done /\ enc.encoded /\ BelowHundred(enc.a) /\ BelowHundred(enc.b)
        /\ LexLess(enc.a, enc.b)) => enc.na < enc.nb

\* 2.1.5 against 3.0.0: 20105 < 30000.
C12_Witness ==
    /\ enc.done /\ enc.encoded
    /\ enc.a = <<2, 1, 5>> /\ enc.b = <<3, 0, 0>>
    /\ enc.na = 20105 /\ enc.nb = 30000

(***************************************************************************)
(* Claims about the memo sets of type_contains_serialized_data.            *)
(***************************************************************************)
\* The request parameter type the loops stand at.
TypeAtHand ==
    df_services[lookup.s].methods[lookup.m].request.params[lookup.p]

\* The sets are disjoint, and every call that has returned left its argument
\* in exactly one of them: the hit set iff it returned true.
MemoSetsRecordResults ==
    /\ lookup.hits \cap lookup.misses = {}
    /\ \A k \in 1..Len(lookup.last.trace) :
          LET call == lookup.last.trace[k]
          IN  /\ call.ret <=> call.name \in lookup.hits
              /\ ~call.ret <=> call.name \in lookup.misses

\* The sets only grow; a call on a name that already is in one of them returns
\* what the set says and is the only call made: no component or parameter
\* type is visited and the sets stay as they are.
MemoSetsStep ==
    /\ lookup.hits \subseteq lookup'.hits
    /\ lookup.misses \subseteq lookup'.misses
    /\ (/\ lookup.status = "run" /\ lookup_at_param(lookup, df_services)
        /\ TypeAtHand \in lookup.hits \cup lookup.misses)
          => /\ lookup'.status = "run"
             /\ lookup'.last.trace =
                  << [name |-> TypeAtHand, ret |-> TypeAtHand \in lookup.hits] >>
             /\ lookup'.hits = lookup.hits /\ lookup'.misses = lookup.misses

\* C13: on an acyclic corpus the hit set and the miss set are disjoint and only
\* grow, every type name whose classification has completed is in exactly one
\* of them (the hit set iff the result was true), and a later call on a name
\* already classified returns the same result from the sets without recursing
\* into its component or parameter types.
C13_MemoSets ==
    /\ [](Acyclic(custom_types) => MemoSetsRecordResults)
    /\ [][Acyclic(custom_types) => MemoSetsStep]_vars

\* List_Data was classified for the first method (two calls: Data, List_Data)
\* and is asked for again by the second method: one call, answered by the hit
\* set; String, asked for twice by the first method, is in the miss set.
C13_Witness ==
    /\ Acyclic(custom_types)
    /\ lookup.done /\ lookup.status = "run" /\ lookup.s = 1 /\ lookup.m = 3
    /\ Len(df_services[1].methods) = 2
    /\ df_services[1].methods[1].request.params = <<TString, <<"List", "Data">> >>
    /\ df_services[1].methods[2].request.params = << <<"List", "Data">> >>
    /\ lookup.last = [name |-> <<"List", "Data">>, ret |-> TRUE,
                      trace |-> << [name |-> <<"List", "Data">>, ret |-> TRUE] >>]
    /\ TString \in lookup.misses /\ <<"List", "Data">> \in lookup.hits

(***************************************************************************)
(* Claims about the message ids over the corpus.                           *)
(***************************************************************************)
\* The message ids on a method document, each with the triple it belongs to.
IdsOn(doc) ==
    LET sid == doc.service.id
        mid == doc.method.id
    IN  {[service_id |-> sid, method_id |-> mid, kind |-> 0, id |-> doc.method.request.id],
         [service_id |-> sid, method_id |-> mid, kind |-> 1, id |-> doc.method.response.id]}
          \cup {[service_id |-> sid, method_id |-> mid, kind |-> i + 2,
                 id |-> doc.method.events[i + 1].id] :
                  i \in 0..(Len(doc.method.events) - 1)}

AssignedIds == UNION {IdsOn(id_docs.docs[k]) : k \in 1..Len(id_docs.docs)}

Triple(t) == <<t.service_id, t.method_id, t.kind>>

InOneByte(t) == t.service_id <= 255 /\ t.method_id <= 255 /\ t.kind <= 255

\* C14 as stated: whatever the service ids, method ids and event counts, also
\* beyond 255, two distinct triples (serviceId, methodId, kind) never get the
\* same message id and every message id is below 2^24.
C14_InjectiveForAllIds ==
    (id_docs.done /\ id_docs.assigned) =>
        /\ \A t \in AssignedIds : t.id < 16777216
        /\ \A t \in AssignedIds, u \in AssignedIds :
              t.id = u.id => Triple(t) = Triple(u)

\* C14 as amended: among the triples whose service id, method id and kind are
\* all at most 255, two distinct triples never get the same message id and
\* every message id is below 2^24.
C14_InjectiveWithinOneByte ==
    (id_docs.done /\ id_docs.assigned) =>
        /\ \A t \in AssignedIds : InOneByte(t) => t.id < 16777216
        /\ \A t \in AssignedIds, u \in AssignedIds :
              (InOneByte(t) /\ InOneByte(u) /\ t.id = u.id) => Triple(t) = Triple(u)

\* Methods (0, 1) and (1, 0) with two events each: the eight ids are distinct,
\* the highest is 65539.
C14_Witness ==
    /\ id_docs.done /\ id_docs.assigned
    /\ id_docs.docs[1].declared = [service_id |-> 0, method_id |-> 1, events |-> 2]
    /\ id_docs.docs[2].declared = [service_id |-> 1, method_id |-> 0, events |-> 2]
    /\ {t.id : t \in AssignedIds} = {256, 257, 258, 259, 65536, 65537, 65538, 65539}

=============================================================================
